---- MODULE Spec2Model ----
(***************************************************************************)
(* Notes API backend (FastAPI + SQLite): the notes table, the wall clock   *)
(* and the five route handlers of notes_routes.py.                         *)
(*                                                                         *)
(* Every db.execute_* call opens its own connection and commits on exit    *)
(* (db.py _connect), so one SQL statement is one atomic step and a handler *)
(* that issues several statements is several steps; the handlers are plain *)
(* `def` routes, which FastAPI runs on a thread pool, so the steps of      *)
(* different requests interleave.                                          *)
(*                                                                         *)
(* Text values are TLA+ strings.  An optional value (str | None, Row |     *)
(* None) is a sequence of length 0 or 1.  A timestamp is the number of     *)
(* whole seconds that _utc_now_iso formats: the ISO-8601 text it produces  *)
(* has fixed width, so SQLite's TEXT comparison orders it as the number.   *)
(***************************************************************************)
EXTENDS Integers, Sequences, FiniteSets, TLC

----------------------------------------------------------------------------
(* Bounds of the model *)

MaxReq == 2          \* request slots (worker threads)
MaxId == 2           \* create_note is cut off once this many ids were assigned
MaxClock == 1        \* last second the wall clock shows

(* Program constants *)

MinLength == 1       \* Field(min_length=1)
MaxTitleLength == 200  \* Field(max_length=200)

HTTP_200_OK == 200
HTTP_201_CREATED == 201
HTTP_204_NO_CONTENT == 204
HTTP_400_BAD_REQUEST == 400
HTTP_404_NOT_FOUND == 404
HTTP_422_UNPROCESSABLE_ENTITY == 422
HTTP_500_INTERNAL_SERVER_ERROR == 500

----------------------------------------------------------------------------
(* Values *)

None == <<>>
Some(v) == <<v>>

RECURSIVE Repeat(_)
Repeat(n) == IF n = 0 THEN "" ELSE "t" \o Repeat(n - 1)

LongTitle == Repeat(MaxTitleLength + 1)

Req == 1..MaxReq
Ids == 1..MaxId                \* the ids a client asks for

\* request bodies: one valid NoteCreate and the three ways to fail it; the
\* valid NoteUpdate bodies and one that fails
CreatePayloads ==
    {[title |-> "a", content |-> "x"], [title |-> "", content |-> "x"],
     [title |-> LongTitle, content |-> "x"], [title |-> "a", content |-> ""]}
UpdatePayloads ==
    {[title |-> None, content |-> None], [title |-> Some("b"), content |-> None],
     [title |-> None, content |-> Some("y")], [title |-> Some("b"), content |-> Some("y")],
     [title |-> Some(""), content |-> None]}

NoPayload == [title |-> None, content |-> None]

VARIABLES
    store,      \* the notes table: id -> row, for the ids that have a row
    seq,        \* sqlite_sequence: the largest id ever assigned (AUTOINCREMENT)
    clock,      \* the system wall clock, in whole seconds
    req,        \* per worker thread: the request it handles and the handler's locals
    resp,       \* the response the step just taken sent, with the request it answers
    deleted,    \* history: the ids for which delete_note has answered 204
    updated     \* history: the ids of the rows present that an UPDATE has changed

vars == <<store, seq, clock, req, resp, deleted, updated>>

----------------------------------------------------------------------------
(* db.py *)

\* _utc_now_iso: now() with the microseconds dropped, i.e. the current second
utc_now_iso == clock

\* variant: a rowid without AUTOINCREMENT, one more than the largest id present
NewRowId_Reuse(st, sq) ==
    IF DOMAIN st = {} THEN 1
    ELSE (CHOOSE i \in DOMAIN st : \A j \in DOMAIN st : j <= i) + 1

\* INTEGER PRIMARY KEY AUTOINCREMENT: one more than the largest id ever used
NewRowId(st, sq) == sq + 1

\* execute_select_one(... WHERE id = ?)
execute_select_one(st, id) == IF id \in DOMAIN st THEN Some(st[id]) ELSE None

\* variant: ORDER BY updated_at ASC, id DESC
Before_Asc(a, b) ==
    \/ a.updated_at < b.updated_at
    \/ a.updated_at = b.updated_at /\ a.id > b.id

\* ORDER BY updated_at DESC, id DESC
Before(a, b) ==
    \/ a.updated_at > b.updated_at
    \/ a.updated_at = b.updated_at /\ a.id > b.id

RECURSIVE OrderBy(_)
OrderBy(rows) ==
    IF rows = {} THEN <<>>
    ELSE LET first == CHOOSE a \in rows : \A b \in rows \ {a} : Before(a, b)
         IN  <<first>> \o OrderBy(rows \ {first})

\* execute_select(SELECT ... FROM notes ORDER BY ...)
execute_select(st) == OrderBy({st[i] : i \in DOMAIN st})

\* variant: updated_at from a second reading of the clock
InsertRow_Now(st, id, title, content, now) ==
    [i \in DOMAIN st \cup {id} |->
        IF i = id
        THEN [id |-> id, title |-> title, content |-> content,
              created_at |-> now, updated_at |-> utc_now_iso]
        ELSE st[i]]

\* INSERT INTO notes (title, content, created_at, updated_at) VALUES (?, ?, ?, ?)
InsertRow(st, id, title, content, now) ==
    [i \in DOMAIN st \cup {id} |->
        IF i = id
        THEN [id |-> id, title |-> title, content |-> content,
              created_at |-> now, updated_at |-> now]
        ELSE st[i]]

\* variant: the UPDATE without its WHERE clause
UpdateRow_All(st, id, title, content, now) ==
    [i \in DOMAIN st |->
        [st[i] EXCEPT !.title = title, !.content = content, !.updated_at = now]]

\* UPDATE notes SET title = ?, content = ?, updated_at = ? WHERE id = ?
UpdateRow(st, id, title, content, now) ==
    [i \in DOMAIN st |->
        IF i = id
        THEN [st[i] EXCEPT !.title = title, !.content = content, !.updated_at = now]
        ELSE st[i]]

\* DELETE FROM notes WHERE id = ?
DeleteRow(st, id) == [i \in DOMAIN st \ {id} |-> st[i]]

----------------------------------------------------------------------------
(* models.py *)

\* variant: no length constraints
NoteCreate_NoCheck(p) == TRUE

\* NoteCreate: title 1..200 characters, content at least 1
NoteCreate(p) ==
    /\ Len(p.title) >= MinLength
    /\ Len(p.title) <= MaxTitleLength
    /\ Len(p.content) >= MinLength

\* NoteUpdate: both optional; the same lengths when present
NoteUpdate(p) ==
    /\ p.title # None => (Len(p.title[1]) >= MinLength /\ Len(p.title[1]) <= MaxTitleLength)
    /\ p.content # None => Len(p.content[1]) >= MinLength

----------------------------------------------------------------------------
(* Requests *)

Idle ==
    [op |-> "none", pc |-> "idle", note_id |-> 0, payload |-> NoPayload,
     new_title |-> "", new_content |-> "", now |-> 0, new_id |-> 0]

NoResp == [op |-> "none", note_id |-> 0, payload |-> NoPayload, status |-> 0, body |-> <<>>]

Free(r) == req[r].pc = "idle"

\* a request arrives at worker r
Begin(op, id, p) == [Idle EXCEPT !.op = op, !.note_id = id, !.payload = p]

\* a step that sends no response
Silent == resp' = NoResp

\* the handler returns or raises: the response goes out and the worker is free
Respond(r, q, status, body) ==
    /\ req' = [req EXCEPT ![r] = Idle]
    /\ resp' = [op |-> q.op, note_id |-> q.note_id, payload |-> q.payload,
                status |-> status, body |-> body]

Init ==
    /\ store = <<>>
    /\ seq = 0
    /\ clock \in 0..MaxClock
    /\ req = [r \in Req |-> Idle]
    /\ resp = NoResp
    /\ deleted = {}
    /\ updated = {}

----------------------------------------------------------------------------
(* The wall clock: datetime.now() follows the system clock, which runs    *)
(* forward and can be set back (NTP step, manual adjustment).             *)

Tick ==
    /\ clock < MaxClock
    /\ clock' = clock + 1
    /\ Silent
    /\ UNCHANGED <<store, seq, req, deleted, updated>>

ClockSetBack ==
    /\ \E c \in 0..(clock - 1) : clock' = c
    /\ Silent
    /\ UNCHANGED <<store, seq, req, deleted, updated>>

----------------------------------------------------------------------------
(* notes_routes.py *)

\* list_notes
list_notes(r) ==
    /\ Free(r)
    /\ Respond(r, Begin("list", 0, NoPayload), HTTP_200_OK, execute_select(store))
    /\ UNCHANGED <<store, seq, clock, deleted, updated>>

\* get_note: the response for note_id against a table
GetNoteResult(st, id) ==
    LET row == execute_select_one(st, id)
    IN  IF row = None THEN [status |-> HTTP_404_NOT_FOUND, body |-> <<>>]
        ELSE [status |-> HTTP_200_OK, body |-> row]

get_note(r, id) ==
    /\ Free(r)
    /\ LET res == GetNoteResult(store, id)
       IN  Respond(r, Begin("get", id, NoPayload), res.status, res.body)
    /\ UNCHANGED <<store, seq, clock, deleted, updated>>

\* create_note, up to `now = db.utc_now_iso()`; a payload that fails
\* NoteCreate is answered 422 before the handler body runs
CreateNow(r, p) ==
    /\ Free(r)
    /\ seq + Cardinality({q \in Req : req[q].op = "create" /\ req[q].pc = "insert"}) < MaxId
    /\ IF ~NoteCreate(p)
       THEN Respond(r, Begin("create", 0, p), HTTP_422_UNPROCESSABLE_ENTITY, <<>>)
       ELSE /\ req' = [req EXCEPT ![r] =
                        [Begin("create", 0, p) EXCEPT !.pc = "insert", !.now = utc_now_iso]]
            /\ Silent
    /\ UNCHANGED <<store, seq, clock, deleted, updated>>

\* create_note: new_id = db.execute_modify("INSERT ...")
CreateInsert(r) ==
    /\ req[r].op = "create" /\ req[r].pc = "insert"
    /\ LET id == NewRowId(store, seq)
       IN  /\ store' = InsertRow(store, id, req[r].payload.title, req[r].payload.content,
                                 req[r].now)
           /\ seq' = id
           /\ req' = [req EXCEPT ![r].pc = "select", ![r].new_id = id, ![r].now = 0]
    /\ Silent
    /\ UNCHANGED <<clock, deleted, updated>>

\* create_note: the re-read of the new row and the response
CreateSelect(r) ==
    /\ req[r].op = "create" /\ req[r].pc = "select"
    /\ LET row == execute_select_one(store, req[r].new_id)
       IN  IF row = None
           THEN Respond(r, req[r], HTTP_500_INTERNAL_SERVER_ERROR, <<>>)
           ELSE Respond(r, req[r], HTTP_201_CREATED, row)
    /\ UNCHANGED <<store, seq, clock, deleted, updated>>

\* update_note: the existence read, the merge of the payload with the row
\* read, the empty-payload check and `now = db.utc_now_iso()`; a payload
\* that fails NoteUpdate is answered 422 before the handler body runs.
\* (The clock is read in the step of the SELECT: the clock moves freely, so
\* every pair of row read and `now` is still produced.)
\* variant: the empty-payload check before the existence check
UpdateSelect_CheckFirst(r, id, p) ==
    /\ Free(r)
    /\ LET q == Begin("update", id, p)
           existing == execute_select_one(store, id)
       IN  IF ~NoteUpdate(p)
           THEN Respond(r, q, HTTP_422_UNPROCESSABLE_ENTITY, <<>>)
           ELSE IF p.title = None /\ p.content = None
           THEN Respond(r, q, HTTP_400_BAD_REQUEST, <<>>)
           ELSE IF existing = None
           THEN Respond(r, q, HTTP_404_NOT_FOUND, <<>>)
           ELSE /\ req' = [req EXCEPT ![r] =
                            [q EXCEPT
                               !.pc = "exec",
                               !.new_title = IF p.title # None THEN p.title[1]
                                             ELSE existing[1].title,
                               !.new_content = IF p.content # None THEN p.content[1]
                                               ELSE existing[1].content,
                               !.now = utc_now_iso]]
                /\ Silent
    /\ UNCHANGED <<store, seq, clock, deleted, updated>>

\* update_note, lines 132-145
UpdateSelect(r, id, p) ==
    /\ Free(r)
    /\ LET q == Begin("update", id, p)
           existing == execute_select_one(store, id)
       IN  IF ~NoteUpdate(p)
           THEN Respond(r, q, HTTP_422_UNPROCESSABLE_ENTITY, <<>>)
           ELSE IF existing = None
           THEN Respond(r, q, HTTP_404_NOT_FOUND, <<>>)
           ELSE IF p.title = None /\ p.content = None
           THEN Respond(r, q, HTTP_400_BAD_REQUEST, <<>>)
           ELSE /\ req' = [req EXCEPT ![r] =
                            [q EXCEPT
                               !.pc = "exec",
                               !.new_title = IF p.title # None THEN p.title[1]
                                             ELSE existing[1].title,
                               !.new_content = IF p.content # None THEN p.content[1]
                                               ELSE existing[1].content,
                               !.now = utc_now_iso]]
                /\ Silent
    /\ UNCHANGED <<store, seq, clock, deleted, updated>>

\* update_note: db.execute_modify("UPDATE ..."); new_title, new_content and
\* now are not read again
UpdateExec(r) ==
    /\ req[r].op = "update" /\ req[r].pc = "exec"
    /\ store' = UpdateRow(store, req[r].note_id, req[r].new_title, req[r].new_content,
                          req[r].now)
    /\ req' = [req EXCEPT ![r].pc = "reselect", ![r].new_title = "",
                          ![r].new_content = "", ![r].now = 0]
    /\ updated' = updated \cup ({req[r].note_id} \cap DOMAIN store)
    /\ Silent
    /\ UNCHANGED <<seq, clock, deleted>>

\* update_note: the re-read of the row and the response
UpdateReselect(r) ==
    /\ req[r].op = "update" /\ req[r].pc = "reselect"
    /\ LET row == execute_select_one(store, req[r].note_id)
       IN  IF row = None
           THEN Respond(r, req[r], HTTP_500_INTERNAL_SERVER_ERROR, <<>>)
           ELSE Respond(r, req[r], HTTP_200_OK, row)
    /\ UNCHANGED <<store, seq, clock, deleted, updated>>

\* delete_note: the existence read
DeleteSelect(r, id) ==
    /\ Free(r)
    /\ LET q == Begin("delete", id, NoPayload)
           existing == execute_select_one(store, id)
       IN  IF existing = None
           THEN Respond(r, q, HTTP_404_NOT_FOUND, <<>>)
           ELSE /\ req' = [req EXCEPT ![r] = [q EXCEPT !.pc = "delete"]]
                /\ Silent
    /\ UNCHANGED <<store, seq, clock, deleted, updated>>

\* delete_note: db.execute_modify("DELETE ...") and the 204
DeleteExec(r) ==
    /\ req[r].op = "delete" /\ req[r].pc = "delete"
    /\ store' = DeleteRow(store, req[r].note_id)
    /\ Respond(r, req[r], HTTP_204_NO_CONTENT, <<>>)
    /\ deleted' = deleted \cup {req[r].note_id}
    /\ updated' = updated \ {req[r].note_id}
    /\ UNCHANGED <<seq, clock>>

----------------------------------------------------------------------------

Next ==
    \/ Tick
    \/ ClockSetBack
    \/ \E r \in Req : list_notes(r)
    \/ \E r \in Req, id \in Ids : get_note(r, id)
    \/ \E r \in Req, p \in CreatePayloads : CreateNow(r, p)
    \/ \E r \in Req : CreateInsert(r)
    \/ \E r \in Req : CreateSelect(r)
    \/ \E r \in Req, id \in Ids, p \in UpdatePayloads : UpdateSelect(r, id, p)
    \/ \E r \in Req : UpdateExec(r)
    \/ \E r \in Req : UpdateReselect(r)
    \/ \E r \in Req, id \in Ids : DeleteSelect(r, id)
    \/ \E r \in Req : DeleteExec(r)

\* requests on a thread pool: every interleaving of the handlers' statements
Spec == Init /\ [][Next]_vars

\* one client that sends a request only after the previous one was answered
Alone(r) == \A q \in Req \ {r} : Free(q)

NextSeq ==
    \/ Tick
    \/ ClockSetBack
    \/ \E r \in Req : Alone(r) /\ list_notes(r)
    \/ \E r \in Req, id \in Ids : Alone(r) /\ get_note(r, id)
    \/ \E r \in Req, p \in CreatePayloads : Alone(r) /\ CreateNow(r, p)
    \/ \E r \in Req : CreateInsert(r)
    \/ \E r \in Req : CreateSelect(r)
    \/ \E r \in Req, id \in Ids, p \in UpdatePayloads : Alone(r) /\ UpdateSelect(r, id, p)
    \/ \E r \in Req : UpdateExec(r)
    \/ \E r \in Req : UpdateReselect(r)
    \/ \E r \in Req, id \in Ids : Alone(r) /\ DeleteSelect(r, id)
    \/ \E r \in Req : DeleteExec(r)

SpecSeq == Init /\ [][NextSeq]_vars

TypeOK ==
    /\ seq \in 0..MaxId
    /\ clock \in 0..MaxClock
    /\ DOMAIN store \subseteq 1..seq
    /\ \A i \in DOMAIN store : store[i].id = i
    /\ deleted \subseteq 1..seq
    /\ updated \subseteq DOMAIN store

----------------------------------------------------------------------------
(* Properties *)

\* position of the row with id i in a list_notes body (0 when it is not there)
Pos(body, i) ==
    IF \E k \in 1..Len(body) : body[k].id = i
    THEN CHOOSE k \in 1..Len(body) : body[k].id = i
    ELSE 0

\* C1: an UPDATE issued by update_note for a payload that omits content
\* (resp. title) leaves the stored content (resp. title) of the note as it
\* was immediately before the UPDATE, in every interleaving.  (The row is
\* there when the UPDATE runs, so the re-read that follows answers 200.)
C1_OmittedFieldsKept ==
    [][\A r \in Req :
          (UpdateExec(r) /\ req[r].note_id \in DOMAIN store) =>
              /\ req[r].payload.content = None =>
                    store'[req[r].note_id].content = store[req[r].note_id].content
              /\ req[r].payload.title = None =>
                    store'[req[r].note_id].title = store[req[r].note_id].title]_vars

\* C2: update_note with neither title nor content answers 404 when the id has
\* no row and 400 when it has one; the request ends there (no UPDATE is
\* issued) and the table is unchanged.
C2_EmptyUpdate ==
    [][\A r \in Req, id \in Ids :
          UpdateSelect(r, id, NoPayload) =>
              /\ resp'.status = IF id \in DOMAIN store THEN HTTP_400_BAD_REQUEST
                                ELSE HTTP_404_NOT_FOUND
              /\ req'[r].pc = "idle"
              /\ store' = store]_vars

C2_Witness ==
    /\ resp.op = "update" /\ resp.payload = NoPayload
    /\ resp.status = HTTP_400_BAD_REQUEST
    /\ resp.note_id \in DOMAIN store

\* C3: every update_note with a valid payload is answered 200, 404 or 400,
\* in every interleaving with other requests.
C3_UpdateAnswers ==
    (resp.op = "update" /\ NoteUpdate(resp.payload)) =>
        resp.status \in {HTTP_200_OK, HTTP_404_NOT_FOUND, HTTP_400_BAD_REQUEST}

\* C4: every stored note has updated_at >= created_at.
C4_UpdatedNotBeforeCreated ==
    \A i \in DOMAIN store : store[i].updated_at >= store[i].created_at

C6_DeletedStaysGone ==
    /\ \A i \in deleted : GetNoteResult(store, i).status = HTTP_404_NOT_FOUND
    /\ (resp.op = "get" /\ resp.note_id \in deleted) => resp.status = HTTP_404_NOT_FOUND

C6_Witness ==
    /\ resp.op = "get" /\ resp.note_id \in deleted
    /\ \E i \in DOMAIN store : i > resp.note_id /\ i \in updated

\* C7: list_notes answers 200 with exactly the rows of the table, each once,
\* by updated_at descending and then id descending; the empty list for the
\* empty table.
C7_ListAllOrdered ==
    resp.op = "list" =>
        /\ resp.status = HTTP_200_OK
        /\ Len(resp.body) = Cardinality(DOMAIN store)
        /\ {resp.body[k] : k \in 1..Len(resp.body)} = {store[i] : i \in DOMAIN store}
        /\ \A j, k \in 1..Len(resp.body) :
              j < k =>
                \/ resp.body[j].updated_at > resp.body[k].updated_at
                \/ /\ resp.body[j].updated_at = resp.body[k].updated_at
                   /\ resp.body[j].id > resp.body[k].id

C7_Witness ==
    /\ resp.op = "list" /\ Len(resp.body) = 2
    /\ resp.body[1].id < resp.body[2].id

\* C8: with note A created before note B and neither updated nor deleted,
\* list_notes places B before A.
C8_LaterCreatedFirst ==
    resp.op = "list" =>
        \A a, b \in DOMAIN store \ updated :
            a < b => Pos(resp.body, b) < Pos(resp.body, a)

\* C9: create_note with an empty title, a title of more than 200 characters or
\* an empty content is answered with the validation error at once: nothing is
\* inserted and the table is as before.
C9_InvalidCreateRejected ==
    [][\A r \in Req, p \in CreatePayloads :
          (CreateNow(r, p)
             /\ (Len(p.title) = 0 \/ Len(p.title) > 200 \/ Len(p.content) = 0)) =>
              /\ resp'.status = HTTP_422_UNPROCESSABLE_ENTITY
              /\ req'[r].pc = "idle"
              /\ store' = store /\ seq' = seq]_vars

C9_Witness ==
    /\ resp.op = "create" /\ resp.status = HTTP_422_UNPROCESSABLE_ENTITY
    /\ Len(resp.payload.title) > 200
    /\ store # <<>>

\* C10: the UPDATE of update_note changes only title, content and updated_at
\* of the row with that id; the DELETE of delete_note removes only that row;
\* get_note, list_notes and every step that answers 404 or 400 leave the
\* table as it is.
C10_Frame ==
    [][/\ \A r \in Req :
            (UpdateExec(r) /\ req[r].note_id \in DOMAIN store) =>
                /\ DOMAIN store' = DOMAIN store
                /\ \A j \in DOMAIN store \ {req[r].note_id} : store'[j] = store[j]
                /\ store'[req[r].note_id].id = store[req[r].note_id].id
                /\ store'[req[r].note_id].created_at = store[req[r].note_id].created_at
       /\ \A r \in Req :
            DeleteExec(r) =>
                /\ DOMAIN store' = DOMAIN store \ {req[r].note_id}
                /\ \A j \in DOMAIN store' : store'[j] = store[j]
       /\ (\/ resp'.op \in {"get", "list"}
           \/ resp'.status \in {HTTP_404_NOT_FOUND, HTTP_400_BAD_REQUEST}) =>
                store' = store]_vars

C10_Witness ==
    /\ \E r \in Req : req[r].pc = "reselect" /\ req[r].note_id \in updated
    /\ Cardinality(DOMAIN store) = 2
    /\ resp = NoResp

====
